---- MODULE Spec2Model ----
(***************************************************************************)
(* Model of datasource/etcd/engine.go (SCManager): self-registration with  *)
(* a heartbeat loop, and the lock-guarded version upgrade.                 *)
(*                                                                         *)
(* Versions are modelled as naturals ordered by <.  Service and instance   *)
(* ids are naturals, 0 standing for the empty string "".                   *)
(***************************************************************************)
EXTENDS Naturals, FiniteSets

\* ---------------------------------------------------------------- bounds
NumNodes == 2
MaxVer == 2
MaxDirect == 1

MaxLoops == 2
MaxSvcIds == 2
MaxInstIds == 2

Nodes == 1..NumNodes
Versions == 0..MaxVer
NoNode == 0

Main == 0
Loops == 1..MaxLoops
Threads == {Main} \cup Loops
Empty == 0

VARIABLES
  \* ---- self-registration (one process: the caller Main and its heartbeat loops)
  pc,           \* position of each thread
  serviceId,    \* core.Service.ServiceId
  instSvcId,    \* core.Instance.ServiceId
  instanceId,   \* core.Instance.InstanceId
  respSid,      \* respE.ServiceId of the thread inside registerService
  ret,          \* error selfRegister / SelfRegister / SelfUnregister last gave Main
  cancelled,    \* the process-wide context is done
  regSvc,       \* id of the matching service record in the registry, Empty when none
  regInsts,     \* ids of the live instance records under that service
  nextSvc,      \* service ids the registry has issued
  nextInst,     \* instance ids the registry has issued
  \* ---- observations
  hbFailed,     \* the last heartbeat of the loop failed and no registry call followed yet
  done,         \* parts of the selfRegister call under way: "rs", "ri_try", "ri"
  prevSid,      \* serviceId when SelfRegister last returned nil
  unregistered, \* a remove-instance request of SelfUnregister has succeeded
  stable,       \* the registry has stopped failing calls and losing records
  \* ---- version upgrade (one entry per node of the cluster)
  upc,          \* position of node n inside UpgradeVersion
  lockHolder,   \* node holding mux.GlobalLock, NoNode when free
  persisted,    \* version in the record under path.GetServerInfoKey()
  memVer,       \* config.Server.Version of node n
  running,      \* version.Ver().Version of node n
  uret,         \* value the last UpgradeVersion/UpgradeServerVersion call of n returned
  dcalls,       \* direct UpgradeServerVersion calls node n has made
  \* ---- observations of the current UpgradeVersion call of node n
  acquired,     \* mux.Lock succeeded in this call
  released,     \* lock.Unlock() calls made in this call
  relRes,       \* result of lock.Unlock() in this call
  needSeen,     \* what needUpgrade answered in this call: "none", "yes", "no"
  uvWrites,     \* version writes node n attempted from UpgradeVersion (line 195)
  lastWrite,    \* [by, locked]: the last write of the record and whether its writer held the lock
  initPersisted \* the persisted version at start

upVars == <<upc, lockHolder, persisted, memVer, running, uret, dcalls,
            acquired, released, relRes, needSeen, uvWrites, lastWrite, initPersisted>>

regVars == <<pc, serviceId, instSvcId, instanceId, respSid, ret, cancelled,
             regSvc, regInsts, nextSvc, nextInst, hbFailed, done, prevSid,
             unregistered, stable>>

vars == <<regVars, upVars>>

\* ------------------------------------------------- version upgrade: init
InitUpgrade ==
  /\ upc = [n \in Nodes |-> "idle"]
  /\ lockHolder = NoNode
  /\ persisted \in Versions
  /\ initPersisted = persisted
  /\ memVer = [n \in Nodes |-> 0]
  /\ running \in [Nodes -> 1..MaxVer]
  /\ uret = [n \in Nodes |-> "none"]
  /\ dcalls = [n \in Nodes |-> 0]
  /\ acquired = [n \in Nodes |-> FALSE]
  /\ released = [n \in Nodes |-> 0]
  /\ relRes = [n \in Nodes |-> "none"]
  /\ needSeen = [n \in Nodes |-> "none"]
  /\ uvWrites = [n \in Nodes |-> 0]
  /\ lastWrite = [by |-> NoNode, locked |-> TRUE]

\* ------------------------------------------------ collaborators (spec §6)
\* needUpgrade(ctx): the persisted version is behind the running binary's.
needUpgrade(n) == persisted < running[n]

\* mux.Lock(mux.GlobalLock) succeeding: cluster-wide mutual exclusion.
LockAcquire(n) == lockHolder = NoNode /\ lockHolder' = n

\* lock.Unlock(): res is "nil" or "unlockErr".  On an error the backend may
\* or may not have dropped the lock.
LockRelease(n, res) ==
  \/ res = "nil" /\ lockHolder' = NoNode
  \/ res = "unlockErr" /\ lockHolder' \in {NoNode, lockHolder}

\* etcdadpt.PutBytes(key, bytes) succeeding: the record holds the version
\* that json.Marshal(config.Server) encoded.
PutBytes(n) ==
  /\ persisted' = memVer[n]
  /\ lastWrite' = [by |-> n, locked |-> (lockHolder = n)]

\* ------------------------------------------------ UpgradeServerVersion
\* lines 178-184: marshal config.Server and put it; res is the returned error.
UpgradeServerVersion(n, res) ==
  \/ res = "nil" /\ PutBytes(n)
  \/ res = "putErr" /\ UNCHANGED <<persisted, lastWrite>>

\* A direct call of the public method by node n, outside UpgradeVersion.
USV_Direct(n) ==
  /\ upc[n] = "idle"
  /\ UNCHANGED regVars
  /\ dcalls[n] < MaxDirect
  /\ dcalls' = [dcalls EXCEPT ![n] = @ + 1]
  /\ \E res \in {"nil", "putErr"} :
       /\ UpgradeServerVersion(n, res)
  /\ UNCHANGED <<upc, lockHolder, memVer, running, uret, acquired, released,
                 relRes, needSeen, uvWrites, initPersisted>>

\* ------------------------------------------------------- UpgradeVersion
\* The caller enters UpgradeVersion (line 185).
UV_Call(n) ==
  /\ upc[n] = "idle"
  /\ UNCHANGED regVars
  /\ upc' = [upc EXCEPT ![n] = "lock"]
  /\ UNCHANGED <<lockHolder, persisted, memVer, running, uret, dcalls,
                 acquired, released, relRes, needSeen, uvWrites, lastWrite,
                 initPersisted>>

\* UV_Lock with a fault: the error of mux.Lock is logged and the call goes on
\* to the check as if it held the lock.
UV_Lock_IgnoreError(n) ==
  /\ upc[n] = "lock"
  /\ UNCHANGED regVars
  /\ \/ /\ LockAcquire(n)
        /\ acquired' = [acquired EXCEPT ![n] = TRUE]
     \/ UNCHANGED <<lockHolder, acquired>>
  /\ upc' = [upc EXCEPT ![n] = "check"]
  /\ UNCHANGED <<persisted, memVer, running, uret, dcalls, released, relRes,
                 needSeen, uvWrites, lastWrite, initPersisted>>

\* lines 186-191: mux.Lock; on an error log and return it.
UV_Lock(n) ==
  /\ upc[n] = "lock"
  /\ UNCHANGED regVars
  /\ \/ /\ LockAcquire(n)
        /\ acquired' = [acquired EXCEPT ![n] = TRUE]
        /\ upc' = [upc EXCEPT ![n] = "check"]
        /\ UNCHANGED uret
     \/ /\ upc' = [upc EXCEPT ![n] = "returned"]
        /\ uret' = [uret EXCEPT ![n] = "lockErr"]
        /\ UNCHANGED <<lockHolder, acquired>>
  /\ UNCHANGED <<persisted, memVer, running, dcalls, released, relRes,
                 needSeen, uvWrites, lastWrite, initPersisted>>

\* UV_Check with a fault: the answer of needUpgrade is ignored.
UV_Check_AlwaysWrite(n) ==
  /\ upc[n] = "check"
  /\ UNCHANGED regVars
  /\ needSeen' = [needSeen EXCEPT ![n] = IF needUpgrade(n) THEN "yes" ELSE "no"]
  /\ memVer' = [memVer EXCEPT ![n] = running[n]]
  /\ upc' = [upc EXCEPT ![n] = "write"]
  /\ UNCHANGED <<lockHolder, persisted, running, uret, dcalls, acquired,
                 released, relRes, uvWrites, lastWrite, initPersisted>>

\* lines 192-193: the re-check under the lock; when an upgrade is needed
\* config.Server.Version takes the running version.
UV_Check(n) ==
  /\ upc[n] = "check"
  /\ UNCHANGED regVars
  /\ IF needUpgrade(n)
       THEN /\ needSeen' = [needSeen EXCEPT ![n] = "yes"]
            /\ memVer' = [memVer EXCEPT ![n] = running[n]]
            /\ upc' = [upc EXCEPT ![n] = "write"]
       ELSE /\ needSeen' = [needSeen EXCEPT ![n] = "no"]
            /\ upc' = [upc EXCEPT ![n] = "unlock"]
            /\ UNCHANGED memVer
  /\ UNCHANGED <<lockHolder, persisted, running, uret, dcalls, acquired,
                 released, relRes, uvWrites, lastWrite, initPersisted>>

\* UV_Write with a fault: a failed write is logged and the call goes on to the
\* unlock instead of ending the process.
UV_Write_Continue(n) ==
  /\ upc[n] = "write"
  /\ UNCHANGED regVars
  /\ uvWrites' = [uvWrites EXCEPT ![n] = @ + 1]
  /\ \E res \in {"nil", "putErr"} : UpgradeServerVersion(n, res)
  /\ upc' = [upc EXCEPT ![n] = "unlock"]
  /\ UNCHANGED <<lockHolder, memVer, running, uret, dcalls, acquired,
                 released, relRes, needSeen, initPersisted>>

\* UV_Write with a fault: a failed write is handed back to the caller as the
\* error of the call.
UV_Write_ReturnError(n) ==
  /\ upc[n] = "write"
  /\ UNCHANGED regVars
  /\ uvWrites' = [uvWrites EXCEPT ![n] = @ + 1]
  /\ \E res \in {"nil", "putErr"} :
       /\ UpgradeServerVersion(n, res)
       /\ upc' = [upc EXCEPT ![n] = IF res = "nil" THEN "unlock" ELSE "returned"]
       /\ uret' = [uret EXCEPT ![n] = IF res = "nil" THEN @ ELSE "putErr"]
  /\ UNCHANGED <<lockHolder, memVer, running, dcalls, acquired,
                 released, relRes, needSeen, initPersisted>>

\* lines 195-198: the version write; a failure ends the process with
\* os.Exit(1), which runs nothing further (the lock is not unlocked).
UV_Write(n) ==
  /\ upc[n] = "write"
  /\ UNCHANGED regVars
  /\ uvWrites' = [uvWrites EXCEPT ![n] = @ + 1]
  /\ \E res \in {"nil", "putErr"} :
       /\ UpgradeServerVersion(n, res)
       /\ upc' = [upc EXCEPT ![n] = IF res = "nil" THEN "unlock" ELSE "exited"]
  /\ UNCHANGED <<lockHolder, memVer, running, uret, dcalls, acquired,
                 released, relRes, needSeen, initPersisted>>

\* UV_Unlock with a fault: the unlock error is logged and nil is returned.
UV_Unlock_SwallowError(n) ==
  /\ upc[n] = "unlock"
  /\ UNCHANGED regVars
  /\ \E res \in {"nil", "unlockErr"} :
       /\ LockRelease(n, res)
       /\ relRes' = [relRes EXCEPT ![n] = res]
  /\ uret' = [uret EXCEPT ![n] = "nil"]
  /\ released' = [released EXCEPT ![n] = @ + 1]
  /\ upc' = [upc EXCEPT ![n] = "returned"]
  /\ UNCHANGED <<persisted, memVer, running, dcalls, acquired, needSeen,
                 uvWrites, lastWrite, initPersisted>>

\* lines 200-204: unlock and return the unlock error.
UV_Unlock(n) ==
  /\ upc[n] = "unlock"
  /\ UNCHANGED regVars
  /\ \E res \in {"nil", "unlockErr"} :
       /\ LockRelease(n, res)
       /\ relRes' = [relRes EXCEPT ![n] = res]
       /\ uret' = [uret EXCEPT ![n] = res]
  /\ released' = [released EXCEPT ![n] = @ + 1]
  /\ upc' = [upc EXCEPT ![n] = "returned"]
  /\ UNCHANGED <<persisted, memVer, running, dcalls, acquired, needSeen,
                 uvWrites, lastWrite, initPersisted>>

\* The caller has the result; the observations of the call are dropped and
\* the node is ready for another call.
UV_Done(n) ==
  /\ upc[n] = "returned"
  /\ UNCHANGED regVars
  /\ upc' = [upc EXCEPT ![n] = "idle"]
  /\ acquired' = [acquired EXCEPT ![n] = FALSE]
  /\ released' = [released EXCEPT ![n] = 0]
  /\ relRes' = [relRes EXCEPT ![n] = "none"]
  /\ needSeen' = [needSeen EXCEPT ![n] = "none"]
  /\ uret' = [uret EXCEPT ![n] = "none"]
  /\ UNCHANGED <<lockHolder, persisted, memVer, running, dcalls,
                 uvWrites, lastWrite, initPersisted>>

UpgradeVersion(n) ==
  \/ UV_Call(n)
  \/ UV_Lock(n)
  \/ UV_Check(n)
  \/ UV_Write(n)
  \/ UV_Unlock(n)
  \/ UV_Done(n)

\* ------------------------------------------------ self-registration: init
InitRegister ==
  /\ pc = [t \in Threads |-> IF t = Main THEN "idle" ELSE "off"]
  /\ serviceId = Empty
  /\ instSvcId = Empty
  /\ instanceId = Empty
  /\ respSid = [t \in Threads |-> Empty]
  /\ ret = "none"
  /\ cancelled = FALSE
  /\ regSvc \in {Empty, 1}
  /\ nextSvc = regSvc
  /\ regInsts = {}
  /\ nextInst = 0
  /\ hbFailed = [t \in Loops |-> FALSE]
  /\ done = [t \in Threads |-> {}]
  /\ prevSid = Empty
  /\ unregistered = FALSE
  /\ stable = FALSE

\* The upgrade side at rest, for the specification of the registration side.
UpgradeIdle ==
  /\ InitUpgrade
  /\ persisted = 0
  /\ running = [n \in Nodes |-> 1]

\* ------------------------------------------- registry client (spec §6)
\* Each call answers "ok" (the success code), "fail" (a non-success status)
\* or "err" (the call itself failed).  A stable registry fails no call and
\* answers a non-success status only when it cannot answer success.
Outcomes == {"ok", "fail", "err"}

\* Exist(identity): success with the record's id when a matching service
\* record exists, a non-success status when none does.
RegExist(out) ==
  \/ out = "ok" /\ regSvc # Empty
  \/ out = "fail" /\ regSvc = Empty
  \/ out = "err" /\ ~stable

\* GetById(serviceId): success when the record with that id exists.
RegGetOne(sid, out) ==
  \/ out = "ok" /\ sid # Empty /\ regSvc = sid
  \/ out = "fail" /\ (~stable \/ ~(sid # Empty /\ regSvc = sid))
  \/ out = "err" /\ ~stable

\* Create(request): on success the id of the record, a fresh one when the
\* service was not registered.
RegCreate(out) ==
  \/ /\ out = "ok" /\ regSvc = Empty /\ nextSvc < MaxSvcIds
     /\ regSvc' = nextSvc + 1 /\ nextSvc' = nextSvc + 1
  \/ out = "ok" /\ regSvc # Empty /\ UNCHANGED <<regSvc, nextSvc>>
  \/ /\ out = "fail" /\ (~stable \/ (regSvc = Empty /\ nextSvc >= MaxSvcIds))
     /\ UNCHANGED <<regSvc, nextSvc>>
  \/ out = "err" /\ ~stable /\ UNCHANGED <<regSvc, nextSvc>>

\* CreateInstance(request): on success a fresh instance record under the
\* request's service.
RegCreateInstance(sid, out) ==
  \/ /\ out = "ok" /\ sid # Empty /\ regSvc = sid /\ nextInst < MaxInstIds
     /\ regInsts' = regInsts \cup {nextInst + 1} /\ nextInst' = nextInst + 1
  \/ /\ out = "fail"
     /\ ~stable \/ ~(sid # Empty /\ regSvc = sid /\ nextInst < MaxInstIds)
     /\ UNCHANGED <<regInsts, nextInst>>
  \/ out = "err" /\ ~stable /\ UNCHANGED <<regInsts, nextInst>>

\* Renew(serviceId, instanceId): success when that instance record is live.
RegRenew(sid, iid, out) ==
  \/ out = "ok" /\ regSvc = sid /\ iid \in regInsts
  \/ out = "fail" /\ ~(regSvc = sid /\ iid \in regInsts)
  \/ out = "err" /\ ~stable

\* RemoveInstance(serviceId, instanceId): success removes the record.
RegRemove(sid, iid, out) ==
  \/ out = "ok" /\ regSvc = sid /\ iid \in regInsts /\ regInsts' = regInsts \ {iid}
  \/ out = "fail" /\ ~(regSvc = sid /\ iid \in regInsts) /\ UNCHANGED regInsts
  \/ out = "err" /\ ~stable /\ UNCHANGED regInsts

\* The registry loses the service record and its instances (compaction,
\* restart of the backing store).
RegistryLoseService ==
  /\ ~stable
  /\ regSvc # Empty
  /\ regSvc' = Empty
  /\ regInsts' = {}
  /\ UNCHANGED <<pc, serviceId, instSvcId, instanceId, respSid, ret, cancelled,
                 nextSvc, nextInst, hbFailed, done, prevSid, unregistered, stable>>
  /\ UNCHANGED upVars

\* The registry loses one instance record (TTL expiry).
RegistryLoseInstance ==
  /\ ~stable
  /\ \E i \in regInsts : regInsts' = regInsts \ {i}
  /\ UNCHANGED <<pc, serviceId, instSvcId, instanceId, respSid, ret, cancelled,
                 regSvc, nextSvc, nextInst, hbFailed, done, prevSid, unregistered, stable>>
  /\ UNCHANGED upVars

\* From here on the registry accepts requests and keeps its records.
RegistryStabilize ==
  /\ ~stable
  /\ stable' = TRUE
  /\ UNCHANGED <<pc, serviceId, instSvcId, instanceId, respSid, ret, cancelled,
                 regSvc, regInsts, nextSvc, nextInst, hbFailed, done, prevSid,
                 unregistered>>
  /\ UNCHANGED upVars

\* The process-wide context is cancelled.
Cancel ==
  /\ ~cancelled
  /\ cancelled' = TRUE
  /\ UNCHANGED <<pc, serviceId, instSvcId, instanceId, respSid, ret, regSvc,
                 regInsts, nextSvc, nextInst, hbFailed, done, prevSid, unregistered, stable>>
  /\ UNCHANGED upVars

\* ------------------------------------------------------- selfRegister
\* Finish with a fault: a loop whose re-registration failed returns instead
\* of waiting for the next tick.
Finish_ExitOnError(t, e, d) ==
  /\ pc' = [pc EXCEPT ![t] = IF t = Main THEN "sr_ret"
                              ELSE IF e = "nil" THEN "wait" ELSE "exit"]
  /\ ret' = IF t = Main THEN e ELSE ret
  /\ done' = [done EXCEPT ![t] = IF t = Main THEN d ELSE {}]

\* selfRegister hands error e to its caller, having completed the parts d:
\* SelfRegister (line 45) for Main, the heartbeat loop (line 144, which only
\* logs the error and waits again) otherwise.
Finish(t, e, d) ==
  /\ pc' = [pc EXCEPT ![t] = IF t = Main THEN "sr_ret" ELSE "wait"]
  /\ ret' = IF t = Main THEN e ELSE ret
  /\ done' = [done EXCEPT ![t] = IF t = Main THEN d ELSE {}]

\* registerService returned nil (line 56-61): registerInstance is next.
ServiceDone(t) ==
  /\ pc' = [pc EXCEPT ![t] = "ri_clear"]
  /\ done' = [done EXCEPT ![t] = @ \cup {"rs"}]
  /\ UNCHANGED ret

\* RS_Exist with a fault: a failed existence query is taken for "not found".
RS_Exist_CreateOnError(t) ==
  /\ pc[t] = "rs_exist"
  /\ \E out \in Outcomes :
       /\ RegExist(out)
       /\ \/ /\ out = "ok"
             /\ respSid' = [respSid EXCEPT ![t] = regSvc]
             /\ pc' = [pc EXCEPT ![t] = "rs_getone"]
          \/ /\ out \in {"fail", "err"}
             /\ pc' = [pc EXCEPT ![t] = "rs_create"]
             /\ UNCHANGED respSid
  /\ hbFailed' = [l \in Loops |-> IF l = t THEN FALSE ELSE hbFailed[l]]
  /\ UNCHANGED <<serviceId, instSvcId, instanceId, ret, cancelled, regSvc,
                 regInsts, nextSvc, nextInst, done, prevSid, unregistered, stable>>
  /\ UNCHANGED upVars

\* lines 65-71, 81: the existence query.
RS_Exist(t) ==
  /\ pc[t] = "rs_exist"
  /\ \E out \in Outcomes :
       /\ RegExist(out)
       /\ \/ /\ out = "err"
             /\ Finish(t, "existErr", done[t])
             /\ UNCHANGED respSid
          \/ /\ out = "ok"
             /\ respSid' = [respSid EXCEPT ![t] = regSvc]
             /\ pc' = [pc EXCEPT ![t] = "rs_getone"]
             /\ UNCHANGED <<ret, done>>
          \/ /\ out = "fail"
             /\ pc' = [pc EXCEPT ![t] = "rs_create"]
             /\ UNCHANGED <<ret, done, respSid>>
  /\ hbFailed' = [l \in Loops |-> IF l = t THEN FALSE ELSE hbFailed[l]]
  /\ UNCHANGED <<serviceId, instSvcId, instanceId, cancelled, regSvc, regInsts,
                 nextSvc, nextInst, prevSid, unregistered, stable>>
  /\ UNCHANGED upVars

\* RS_GetOne with a fault: a failed lookup goes on to the create request.
RS_GetOne_CreateOnFailure(t) ==
  /\ pc[t] = "rs_getone"
  /\ \E out \in Outcomes :
       /\ RegGetOne(respSid[t], out)
       /\ IF out = "ok"
            THEN /\ serviceId' = respSid[t]
                 /\ ServiceDone(t)
            ELSE /\ pc' = [pc EXCEPT ![t] = "rs_create"]
                 /\ UNCHANGED <<serviceId, ret, done>>
  /\ respSid' = [respSid EXCEPT ![t] = Empty]
  /\ UNCHANGED <<instSvcId, instanceId, cancelled, regSvc, regInsts, nextSvc,
                 nextInst, hbFailed, prevSid, unregistered, stable>>
  /\ UNCHANGED upVars

\* lines 72-78: the lookup by id; on success core.Service is the record.
RS_GetOne(t) ==
  /\ pc[t] = "rs_getone"
  /\ \E out \in Outcomes :
       /\ RegGetOne(respSid[t], out)
       /\ IF out = "ok"
            THEN /\ serviceId' = respSid[t]
                 /\ ServiceDone(t)
            ELSE /\ Finish(t, "ErrServiceNotExists", done[t])
                 /\ UNCHANGED serviceId
  /\ respSid' = [respSid EXCEPT ![t] = Empty]
  /\ UNCHANGED <<instSvcId, instanceId, cancelled, regSvc, regInsts, nextSvc,
                 nextInst, hbFailed, prevSid, unregistered, stable>>
  /\ UNCHANGED upVars

\* RS_Create with a fault: the id of the response is stored before its
\* status is looked at, so a failed create leaves an empty service id.
RS_Create_StoreBeforeCheck(t) ==
  /\ pc[t] = "rs_create"
  /\ \E out \in Outcomes :
       /\ RegCreate(out)
       /\ IF out = "ok"
            THEN /\ serviceId' = regSvc'
                 /\ ServiceDone(t)
            ELSE /\ Finish(t, IF out = "err" THEN "createErr" ELSE "createMsg", done[t])
                 /\ serviceId' = Empty
  /\ UNCHANGED <<instSvcId, instanceId, respSid, cancelled, regInsts, nextInst,
                 hbFailed, prevSid, unregistered, stable>>
  /\ UNCHANGED upVars

\* lines 81-92: the create request; on success core.Service.ServiceId is
\* the returned id.
RS_Create(t) ==
  /\ pc[t] = "rs_create"
  /\ \E out \in Outcomes :
       /\ RegCreate(out)
       /\ IF out = "ok"
            THEN /\ serviceId' = regSvc'
                 /\ ServiceDone(t)
            ELSE /\ Finish(t, IF out = "err" THEN "createErr" ELSE "createMsg", done[t])
                 /\ UNCHANGED serviceId
  /\ UNCHANGED <<instSvcId, instanceId, respSid, cancelled, regInsts, nextInst,
                 hbFailed, prevSid, unregistered, stable>>
  /\ UNCHANGED upVars

\* lines 64-93
registerService(t) == RS_Exist(t) \/ RS_GetOne(t) \/ RS_Create(t)

\* RI_Clear with a fault: the instance id of the last registration is kept.
RI_Clear_KeepId(t) ==
  /\ pc[t] = "ri_clear"
  /\ instSvcId' = serviceId
  /\ done' = [done EXCEPT ![t] = @ \cup {"ri_try"}]
  /\ pc' = [pc EXCEPT ![t] = "ri_call"]
  /\ UNCHANGED <<serviceId, instanceId, respSid, ret, cancelled, regSvc, regInsts,
                 nextSvc, nextInst, hbFailed, prevSid, unregistered, stable>>
  /\ UNCHANGED upVars

\* lines 96-97: clear the instance id and attach the owning service id.
RI_Clear(t) ==
  /\ pc[t] = "ri_clear"
  /\ instanceId' = Empty
  /\ instSvcId' = serviceId
  /\ done' = [done EXCEPT ![t] = @ \cup {"ri_try"}]
  /\ pc' = [pc EXCEPT ![t] = "ri_call"]
  /\ UNCHANGED <<serviceId, respSid, ret, cancelled, regSvc, regInsts, nextSvc,
                 nextInst, hbFailed, prevSid, unregistered, stable>>
  /\ UNCHANGED upVars

\* lines 98-111: the create-instance request; on success
\* core.Instance.InstanceId is the returned id.
RI_Call(t) ==
  /\ pc[t] = "ri_call"
  /\ \E out \in Outcomes :
       /\ RegCreateInstance(instSvcId, out)
       /\ IF out = "ok"
            THEN /\ instanceId' = nextInst'
                 /\ Finish(t, "nil", done[t] \cup {"ri"})
            ELSE /\ Finish(t, IF out = "err" THEN "regErr" ELSE "regMsg", done[t])
                 /\ UNCHANGED instanceId
  /\ UNCHANGED <<serviceId, instSvcId, respSid, cancelled, regSvc, nextSvc,
                 hbFailed, prevSid, unregistered, stable>>
  /\ UNCHANGED upVars

\* lines 95-112
registerInstance(t) == RI_Clear(t) \/ RI_Call(t)

\* lines 54-62
selfRegister(t) == registerService(t) \/ registerInstance(t)

\* ------------------------------------------------------- SelfRegister
LoopsStarted == {l \in Loops : pc[l] # "off"}

\* line 44: the caller enters SelfRegister.
SR_Call ==
  /\ pc[Main] = "idle"
  /\ Cardinality(LoopsStarted) < MaxLoops
  /\ pc' = [pc EXCEPT ![Main] = "rs_exist"]
  /\ UNCHANGED <<serviceId, instSvcId, instanceId, respSid, ret, cancelled,
                 regSvc, regInsts, nextSvc, nextInst, hbFailed, done, prevSid, unregistered, stable>>
  /\ UNCHANGED upVars

\* autoSelfHeartBeat (lines 132-133): gopool.Go starts one more loop.
StartLoop ==
  \E l \in Loops :
    /\ pc[l] = "off"
    /\ \A k \in Loops : k < l => pc[k] # "off"
    /\ pc' = [pc EXCEPT ![Main] = "returned", ![l] = "wait"]

\* SR_Return with a fault: the heartbeat loop is started whatever selfRegister
\* returned.
SR_Return_AlwaysStart ==
  /\ pc[Main] = "sr_ret"
  /\ StartLoop
  /\ prevSid' = IF ret = "nil" THEN serviceId ELSE prevSid
  /\ UNCHANGED <<serviceId, instSvcId, instanceId, respSid, ret, cancelled,
                 regSvc, regInsts, nextSvc, nextInst, hbFailed, done, unregistered, stable>>
  /\ UNCHANGED upVars

\* lines 46-51: return the error of selfRegister, or start the heartbeat
\* loop and return nil.
SR_Return ==
  /\ pc[Main] = "sr_ret"
  /\ IF ret = "nil"
       THEN /\ StartLoop
            /\ prevSid' = serviceId
       ELSE /\ pc' = [pc EXCEPT ![Main] = "returned"]
            /\ UNCHANGED prevSid
  /\ UNCHANGED <<serviceId, instSvcId, instanceId, respSid, ret, cancelled,
                 regSvc, regInsts, nextSvc, nextInst, hbFailed, done, unregistered, stable>>
  /\ UNCHANGED upVars

\* lines 44-52
SelfRegister == SR_Call \/ selfRegister(Main) \/ SR_Return

\* The caller of SelfRegister / SelfUnregister has the result; what was
\* observed of the call is dropped.
M_Done ==
  /\ pc[Main] = "returned"
  /\ pc' = [pc EXCEPT ![Main] = "idle"]
  /\ ret' = "none"
  /\ done' = [done EXCEPT ![Main] = {}]
  /\ UNCHANGED <<serviceId, instSvcId, instanceId, respSid, cancelled, regSvc,
                 regInsts, nextSvc, nextInst, hbFailed, prevSid, unregistered, stable>>
  /\ UNCHANGED upVars

\* ------------------------------------------------- the heartbeat loop
\* lines 114-130: send a renew for the current instance identity; the
\* result is "nil" or an error.
selfHeartBeat(res) ==
  \E out \in Outcomes :
    /\ RegRenew(instSvcId, instanceId, out)
    /\ res = (IF out = "ok" THEN "nil" ELSE IF out = "err" THEN "hbErr" ELSE "hbMsg")

\* lines 135-137: the select takes the cancellation case.
HB_Exit(l) ==
  /\ pc[l] = "wait"
  /\ cancelled
  /\ pc' = [pc EXCEPT ![l] = "exit"]
  /\ UNCHANGED <<serviceId, instSvcId, instanceId, respSid, ret, cancelled,
                 regSvc, regInsts, nextSvc, nextInst, hbFailed, done, prevSid, unregistered, stable>>
  /\ UNCHANGED upVars

\* HB_Tick with a fault: a failed heartbeat is only retried at the next tick.
HB_Tick_RetryOnly(l) ==
  /\ pc[l] = "wait"
  /\ \E res \in {"nil", "hbErr", "hbMsg"} :
       /\ selfHeartBeat(res)
       /\ hbFailed' = [hbFailed EXCEPT ![l] = (res # "nil")]
  /\ UNCHANGED <<pc, serviceId, instSvcId, instanceId, respSid, ret, cancelled,
                 regSvc, regInsts, nextSvc, nextInst, done, prevSid, unregistered, stable>>
  /\ UNCHANGED upVars

\* lines 138-144: the select takes the timer case (when the context is done
\* as well, select picks either ready case); a heartbeat is sent, and on an
\* error the loop goes on to selfRegister.
HB_Tick(l) ==
  /\ pc[l] = "wait"
  /\ \E res \in {"nil", "hbErr", "hbMsg"} :
       /\ selfHeartBeat(res)
       /\ IF res = "nil"
            THEN UNCHANGED <<pc, hbFailed>>
            ELSE /\ pc' = [pc EXCEPT ![l] = "rs_exist"]
                 /\ hbFailed' = [hbFailed EXCEPT ![l] = TRUE]
  /\ UNCHANGED <<serviceId, instSvcId, instanceId, respSid, ret, cancelled,
                 regSvc, regInsts, nextSvc, nextInst, done, prevSid, unregistered, stable>>
  /\ UNCHANGED upVars

\* lines 132-152
autoSelfHeartBeat(l) == HB_Exit(l) \/ HB_Tick(l) \/ selfRegister(l)

\* ----------------------------------------------------- SelfUnregister
\* line 154: the caller enters SelfUnregister.
SU_Call ==
  /\ pc[Main] = "idle"
  /\ pc' = [pc EXCEPT ![Main] = "su_check"]
  /\ UNCHANGED <<serviceId, instSvcId, instanceId, respSid, ret, cancelled,
                 regSvc, regInsts, nextSvc, nextInst, hbFailed, done, prevSid, unregistered, stable>>
  /\ UNCHANGED upVars

\* SU_Check with a fault: the remove request is sent whatever the instance id.
SU_Check_NoGuard ==
  /\ pc[Main] = "su_check"
  /\ pc' = [pc EXCEPT ![Main] = "su_send"]
  /\ UNCHANGED <<serviceId, instSvcId, instanceId, respSid, ret, cancelled,
                 regSvc, regInsts, nextSvc, nextInst, hbFailed, done, prevSid, unregistered, stable>>
  /\ UNCHANGED upVars

\* lines 155-157: nothing to do when no instance id is held.
SU_Check ==
  /\ pc[Main] = "su_check"
  /\ IF instanceId = Empty
       THEN pc' = [pc EXCEPT ![Main] = "returned"] /\ ret' = "nil"
       ELSE pc' = [pc EXCEPT ![Main] = "su_send"] /\ UNCHANGED ret
  /\ UNCHANGED <<serviceId, instSvcId, instanceId, respSid, cancelled, regSvc,
                 regInsts, nextSvc, nextInst, hbFailed, done, prevSid, unregistered, stable>>
  /\ UNCHANGED upVars

\* lines 158-172: the remove-instance request for the current identity.
SU_Send ==
  /\ pc[Main] = "su_send"
  /\ \E out \in Outcomes :
       /\ RegRemove(instSvcId, instanceId, out)
       /\ ret' = (IF out = "ok" THEN "nil" ELSE IF out = "err" THEN "unregErr" ELSE "unregMsg")
       /\ unregistered' = (unregistered \/ out = "ok")
  /\ pc' = [pc EXCEPT ![Main] = "returned"]
  /\ UNCHANGED <<serviceId, instSvcId, instanceId, respSid, cancelled, regSvc,
                 nextSvc, nextInst, hbFailed, done, prevSid, stable>>
  /\ UNCHANGED upVars

\* lines 154-173
SelfUnregister == SU_Call \/ SU_Check \/ SU_Send

NextRegister ==
  \/ SelfRegister
  \/ SelfUnregister
  \/ M_Done
  \/ \E l \in Loops : autoSelfHeartBeat(l)
  \/ Cancel
  \/ RegistryLoseService
  \/ RegistryLoseInstance

InitRegisterOnly == InitRegister /\ UpgradeIdle

\* One process registering itself, heartbeating and deregistering against a
\* registry that may fail calls and lose records.
SpecRegister == InitRegisterOnly /\ [][NextRegister]_vars

NextRegisterStabilizing == NextRegister \/ RegistryStabilize

\* The same process when the registry may become stable for good; every
\* started heartbeat loop is a goroutine that keeps being scheduled and
\* whose timer keeps firing.
SpecRegisterFair ==
  /\ InitRegisterOnly
  /\ [][NextRegisterStabilizing]_vars
  /\ \A l \in Loops : WF_vars(autoSelfHeartBeat(l))

\* lines 185-205
NextUpgrade == \E n \in Nodes : UpgradeVersion(n)

NextUpgradeDirect == \E n \in Nodes : UpgradeVersion(n) \/ USV_Direct(n)

\* The registration side at rest, for the specifications of the upgrade side.
InitUpgradeOnly == InitUpgrade /\ InitRegister /\ regSvc = Empty

SpecUpgrade == InitUpgradeOnly /\ [][NextUpgrade]_vars

\* Nodes calling UpgradeVersion and the public UpgradeServerVersion.
SpecUpgradeDirect == InitUpgradeOnly /\ [][NextUpgradeDirect]_vars

\* ------------------------------------------------- claims: version upgrade
InCritical(n) == upc[n] \in {"check", "write", "unlock"}

SameVersion == \A n, m \in Nodes : running[n] = running[m]

Writers == {n \in Nodes : uvWrites[n] > 0}

\* C1: every UpgradeVersion call that acquired the lock has released it
\* exactly once when it ends, whether it returned or ended the process.
C1_ReleasedOnceOnEveryExit ==
  \A n \in Nodes :
    (acquired[n] /\ upc[n] \in {"returned", "exited"}) => released[n] = 1

\* C2: the lock serializes the nodes, and among nodes running the same
\* version at most one performs the version write: a node about to write
\* sees no earlier write of its version, and every later one answers "no
\* upgrade needed" and writes nothing.
C2_AtMostOneWrite ==
  /\ \A n \in Nodes : InCritical(n) => lockHolder = n
  /\ \A n \in Nodes : uvWrites[n] <= 1
  /\ \A n, m \in Nodes :
       (n # m /\ running[n] = running[m]) => uvWrites[n] + uvWrites[m] <= 1
  /\ \A n, m \in Nodes :
       (running[n] = running[m] /\ uvWrites[m] > 0 /\ n # m /\ needSeen[n] # "none")
         => needSeen[n] = "no"

C2_Witness ==
  \E n, m \in Nodes :
    /\ n # m /\ running[n] = running[m] /\ initPersisted < running[n]
    /\ uvWrites[m] = 1 /\ persisted = running[m]
    /\ upc[n] = "returned" /\ acquired[n] /\ needSeen[n] = "no" /\ uvWrites[n] = 0

\* C3: the version record is written only by a node holding the lock, and
\* needUpgrade is read only after the lock was acquired.
C3_RecordTouchedOnlyUnderLock ==
  /\ lastWrite.locked
  /\ \A n \in Nodes : needSeen[n] # "none" => acquired[n]

\* C9: when the persisted version equals the running version the check under
\* the lock leads to the unlock without a write, and whatever the call did
\* after acquiring the lock, it unlocks once and returns exactly the unlock
\* result (no error when the unlock succeeded).
C9_ReturnsReleaseResult ==
  /\ [](\A n \in Nodes :
          (upc[n] = "returned" /\ acquired[n]) =>
             /\ released[n] = 1
             /\ uret[n] = relRes[n]
             /\ uret[n] \in {"nil", "unlockErr"})
  /\ [][\A n \in Nodes :
          /\ (upc[n] = "check" /\ upc'[n] # "check" /\ persisted = running[n])
               => (upc'[n] = "unlock" /\ persisted' = persisted
                   /\ uvWrites' = uvWrites /\ memVer' = memVer)
          /\ (uvWrites'[n] # uvWrites[n]) => needSeen[n] = "yes"]_vars

C9_Witness ==
  \E n \in Nodes :
    /\ initPersisted = running[n] /\ persisted = running[n]
    /\ upc[n] = "returned" /\ acquired[n] /\ needSeen[n] = "no"
    /\ released[n] = 1 /\ uret[n] = "nil" /\ uvWrites[n] = 0

\* C10 as stated: no node returns from UpgradeVersion while an upgrade is
\* still needed for its version, and once all nodes of one version have
\* returned from a record that was behind, the record holds that version
\* and exactly one write was performed.
C10_NoReturnWhileBehind ==
  /\ \A n \in Nodes : upc[n] = "returned" => ~needUpgrade(n)
  /\ (SameVersion /\ (\A n \in Nodes : upc[n] = "returned")
        /\ (\A n \in Nodes : initPersisted < running[n]))
       => (\A n \in Nodes : persisted = running[n]) /\ Cardinality(Writers) = 1

\* C10 amended: a node that returns from UpgradeVersion having acquired the
\* lock leaves a record that is not behind its version; when all nodes run
\* one version and the record started behind it, the record then holds that
\* version and exactly one write was performed.
C10_NoAcquiredReturnWhileBehind ==
  /\ \A n \in Nodes : (upc[n] = "returned" /\ acquired[n]) => ~needUpgrade(n)
  /\ \A n \in Nodes :
       (SameVersion /\ upc[n] = "returned" /\ acquired[n]
          /\ initPersisted < running[n])
         => /\ persisted = running[n]
            /\ Cardinality(Writers) = 1
            /\ \A m \in Nodes : uvWrites[m] <= 1

C10_Witness ==
  /\ SameVersion
  /\ \A n \in Nodes :
       /\ initPersisted < running[n] /\ persisted = running[n]
       /\ upc[n] = "returned" /\ acquired[n]

\* C11: a failed version write ends the process: the step leaves the node
\* exited with no error handed to a caller, an exited node takes no further
\* step, and a call that returned after seeing an upgrade needed returned
\* from a successful write, never with the write's error.
C11_FailedWriteEndsProcess ==
  /\ [](\A n \in Nodes :
          /\ uret[n] # "putErr"
          /\ upc[n] = "exited" => (uret[n] = "none" /\ uvWrites[n] > 0)
          /\ (upc[n] = "returned" /\ needSeen[n] = "yes")
               => (lastWrite.by = n \/ persisted >= running[n]))
  /\ [][\A n \in Nodes :
          /\ (upc[n] = "write" /\ upc'[n] # "write" /\ lastWrite' = lastWrite
                 /\ persisted' = persisted)
               => (upc'[n] = "exited" /\ uret' = uret /\ released' = released)
          /\ upc[n] = "exited" => upc'[n] = "exited"]_vars

C11_Witness ==
  \E n \in Nodes :
    /\ upc[n] = "exited" /\ needSeen[n] = "yes" /\ uvWrites[n] = 1
    /\ persisted < running[n] /\ uret[n] = "none" /\ released[n] = 0

\* C19: a failed lock acquisition returns the acquisition error at once: the
\* step neither reads nor writes the version record, leaves the in-memory
\* version as it was and calls no unlock.
C19_LockErrorReturnsUntouched ==
  /\ [](\A n \in Nodes :
          (upc[n] = "returned" /\ ~acquired[n])
            => (uret[n] = "lockErr" /\ needSeen[n] = "none" /\ released[n] = 0))
  /\ [](\A n \in Nodes :
          upc[n] \in {"check", "write", "unlock"} => acquired[n])
  /\ [][\A n \in Nodes :
          (upc[n] = "lock" /\ upc'[n] # "lock" /\ ~acquired'[n])
            => /\ upc'[n] = "returned" /\ uret'[n] = "lockErr"
               /\ UNCHANGED <<persisted, lastWrite, memVer, needSeen, uvWrites,
                              released, relRes, lockHolder>>]_vars

C19_Witness ==
  \E n \in Nodes :
    /\ upc[n] = "returned" /\ uret[n] = "lockErr" /\ ~acquired[n]
    /\ needSeen[n] = "none" /\ released[n] = 0 /\ uvWrites[n] = 0
    /\ persisted = initPersisted /\ needUpgrade(n) /\ memVer[n] = 0

\* ------------------------------------------------ claims: self-registration
ServiceErrors == {"existErr", "ErrServiceNotExists", "createErr", "createMsg"}

InstanceErrors == {"regErr", "regMsg"}

\* C4: a loop whose heartbeat failed stands at the existence query of
\* registerService, the first call of selfRegister, so its next registry
\* call is never another heartbeat; and in a loop, registerService has
\* succeeded exactly when the loop is inside registerInstance.
C4_FailedHeartbeatThenReregister ==
  \A l \in Loops :
    /\ hbFailed[l] => pc[l] = "rs_exist"
    /\ "rs" \in done[l] <=> pc[l] \in {"ri_clear", "ri_call"}

C4_Witness ==
  \E l \in Loops : pc[l] = "ri_call" /\ done[l] = {"rs", "ri_try"} /\ ~hbFailed[l]

\* C5: when SelfRegister succeeds again while the service record of the
\* previous successful call is still in the registry, the service id is the
\* same; registerService goes to the Create request only when the existence
\* query found no record, and on a successful lookup it adopts the record's
\* id without creating a record.
C5_SecondRegisterAdopts ==
  /\ []((pc[Main] = "sr_ret" /\ ret = "nil" /\ prevSid # Empty /\ regSvc = prevSid)
          => serviceId = prevSid)
  /\ [][\A t \in Threads :
          /\ (pc[t] = "rs_exist" /\ pc'[t] = "rs_create") => regSvc = Empty
          /\ (pc[t] = "rs_getone" /\ pc'[t] = "ri_clear")
               => (serviceId' = regSvc /\ regSvc' = regSvc /\ nextSvc' = nextSvc)]_vars

C5_Witness ==
  /\ pc[Main] = "sr_ret" /\ ret = "nil"
  /\ prevSid # Empty /\ regSvc = prevSid /\ serviceId = prevSid
  /\ nextSvc = 1

\* C6: SelfUnregister finding the instance id empty returns nil at once and
\* changes neither the identities nor the registry.
C6_UnregisterNoOpWhenEmpty ==
  [][(pc[Main] = "su_check" /\ instanceId = Empty /\ pc'[Main] # "su_check")
       => /\ pc'[Main] = "returned"
          /\ ret' = "nil"
          /\ UNCHANGED <<serviceId, instSvcId, instanceId, regSvc, regInsts,
                         nextSvc, nextInst>>]_vars

C6_Witness ==
  /\ pc[Main] = "returned" /\ ret = "nil" /\ done[Main] = {}
  /\ instanceId = Empty /\ serviceId # Empty /\ nextInst = 0

\* C7: once the context is cancelled a running heartbeat loop takes no step
\* but its exit.
C7_LoopOnlyExitsOnceCancelled ==
  [][cancelled =>
       \A l \in Loops : (pc[l] # "off" /\ pc'[l] # pc[l]) => pc'[l] = "exit"]_vars

\* C8: in SelfRegister, registerInstance runs only after registerService
\* returned nil; selfRegister returns nil exactly when registerInstance
\* succeeded, and otherwise the error of the step that failed, with
\* registerInstance not attempted after a registerService error; the
\* heartbeat loop is started only on nil, and SelfRegister returns what
\* selfRegister returned.
C8_RegisterOrder ==
  /\ [](pc[Main] \in {"ri_clear", "ri_call"} => "rs" \in done[Main])
  /\ [](pc[Main] = "sr_ret" =>
          /\ ret = "nil" <=> "ri" \in done[Main]
          /\ "ri" \in done[Main] => done[Main] = {"rs", "ri_try", "ri"}
          /\ "rs" \notin done[Main] => ("ri_try" \notin done[Main] /\ ret \in ServiceErrors)
          /\ ("rs" \in done[Main] /\ "ri" \notin done[Main])
               => ("ri_try" \in done[Main] /\ ret \in InstanceErrors))
  /\ [][/\ (\E l \in Loops : pc[l] = "off" /\ pc'[l] # "off")
             => (pc[Main] = "sr_ret" /\ ret = "nil" /\ "ri" \in done[Main])
        /\ (pc[Main] = "sr_ret" /\ pc'[Main] # "sr_ret")
             => /\ pc'[Main] = "returned" /\ ret' = ret
                /\ ret # "nil" => (\A l \in Loops : pc'[l] = pc[l])
                /\ ret = "nil" => (\E l \in Loops : pc[l] = "off" /\ pc'[l] = "wait")]_vars

C8_Witness ==
  /\ pc[Main] = "returned" /\ ret = "nil" /\ done[Main] = {"rs", "ri_try", "ri"}
  /\ pc[1] = "wait" /\ instanceId # Empty /\ serviceId # Empty

\* The loops that were started and have not returned.
RunningLoops == {l \in Loops : pc[l] \notin {"off", "exit"}}

\* Thread t sends a renew (seen when it fails) or a remove-instance request.
SendsRenewOrRemove(t) ==
  \/ t \in Loops /\ pc[t] = "wait" /\ pc'[t] = "rs_exist"
  \/ t = Main /\ pc[t] = "su_send" /\ pc'[t] = "returned"

\* Thread t sends a request of registerService or registerInstance.
SendsRegistration(t) ==
  pc[t] \in {"rs_exist", "rs_getone", "rs_create", "ri_call"} /\ pc'[t] # pc[t]

\* The process holds the id of a live instance record of its service.
Registered ==
  instanceId # Empty /\ instanceId \in regInsts /\ regSvc = instSvcId

\* C12: every renew and every remove-instance request carries the instance
\* id returned by the most recent successful registerInstance (the last id
\* the registry issued), never an empty or older one.
C12_RequestsCarryLastRegisteredId ==
  [][\A t \in Threads :
       SendsRenewOrRemove(t) => (instanceId # Empty /\ instanceId = nextInst)]_vars

\* C13: the registry holds at most one live instance record of the process.
C13_AtMostOneLiveInstance == Cardinality(regInsts) <= 1

\* C15: at most one heartbeat loop is running.
C15_AtMostOneLoop == Cardinality(RunningLoops) <= 1

\* C16: once a remove-instance request of SelfUnregister has succeeded, no
\* thread sends a request of registerService or registerInstance.
C16_UnregisteredIsTerminal ==
  [][unregistered => \A t \in Threads : ~SendsRegistration(t)]_vars

C18_LookupFailureIsServiceNotFound ==
  /\ [](\A t \in Threads : pc[t] = "rs_getone" => respSid[t] # Empty)
  /\ [](pc[Main] = "sr_ret" /\ ret = "ErrServiceNotExists" => done[Main] = {})
  /\ [][\A t \in Threads :
          (pc[t] = "rs_getone" /\ pc'[t] \notin {"rs_getone", "ri_clear"})
            => /\ pc'[t] = (IF t = Main THEN "sr_ret" ELSE "wait")
               /\ t = Main => ret' = "ErrServiceNotExists"
               /\ UNCHANGED <<serviceId, instSvcId, instanceId, regSvc, regInsts,
                              nextSvc, nextInst>>]_vars

C18_Witness ==
  /\ pc[Main] = "sr_ret" /\ ret = "ErrServiceNotExists"
  /\ regSvc # Empty /\ nextSvc = regSvc /\ serviceId = Empty /\ instanceId = Empty

\* No thread is inside selfRegister, a heartbeat iteration or SelfUnregister.
Quiescent ==
  /\ pc[Main] \in {"idle", "sr_ret", "returned"}
  /\ \A l \in Loops : pc[l] \in {"off", "wait", "exit"}

\* C20: whenever no registration operation is under way a non-empty
\* instance id goes with an instance service id equal to the service id;
\* and a registerService that fails leaves the service id, the instance
\* service id and the instance id as they were.
C20_IdentitiesConsistentAtRest ==
  /\ [](Quiescent => (instanceId # Empty => instSvcId = serviceId))
  /\ [][\A t \in Threads :
          (pc[t] \in {"rs_exist", "rs_getone", "rs_create"}
             /\ pc'[t] = (IF t = Main THEN "sr_ret" ELSE "wait"))
            => UNCHANGED <<serviceId, instSvcId, instanceId>>]_vars

C20_Witness ==
  /\ Quiescent /\ pc[Main] = "sr_ret" /\ ret \in ServiceErrors
  /\ instanceId # Empty /\ instSvcId = serviceId /\ serviceId = 2

\* Loop l runs against a registry that has become stable, the process holds
\* no live instance record, and the registry can still issue ids.
AwaitsRecovery(l) ==
  /\ stable /\ ~cancelled /\ l \in RunningLoops /\ ~Registered
  /\ nextInst < MaxInstIds
  /\ regSvc # Empty \/ nextSvc < MaxSvcIds

\* C14: a heartbeat loop returns only from its wait and only when the
\* context is cancelled; every failed step of its re-registration leads back
\* to the wait; and once the registry is stable and the process holds no live
\* record, a running loop leads to the process holding the non-empty id of a
\* live instance record again, unless the context is cancelled.
C14_LoopSurvivesFailuresAndRecovers ==
  /\ [][\A l \in Loops :
          /\ (pc[l] # "exit" /\ pc'[l] = "exit") => (pc[l] = "wait" /\ cancelled)
          /\ (pc[l] \in {"rs_exist", "rs_getone", "rs_create", "ri_call"}
                 /\ pc'[l] # pc[l])
               => pc'[l] \in {"rs_getone", "rs_create", "ri_clear", "wait"}]_vars
  /\ \A l \in Loops : AwaitsRecovery(l) ~> (Registered \/ cancelled)

C14_Witness ==
  /\ stable /\ ~cancelled /\ Registered
  /\ pc[Main] = "idle" /\ pc[1] = "wait" /\ pc[2] = "off"
  /\ nextInst = 2 /\ instanceId = 2 /\ nextSvc = 2 /\ serviceId = 2

====
